---- MODULE Spec2Model ----
(***************************************************************************)
(* ECDH-1PU key exchange with the NIST SP 800-56A single-step KDF          *)
(* (package exchange).  The exchange object, its SecretKey method, the     *)
(* shared-secret computation, the fixed-info encoder and the KDF loop are  *)
(* translated from the Go source.  The elliptic curve and the hash are     *)
(* library parameters of the code: the curve is a short Weierstrass curve  *)
(* of prime order over a small prime field, the hash is Adler-32 (Go's     *)
(* hash/adler32, a hash.Hash with Size() = 4).                             *)
(***************************************************************************)
EXTENDS Integers, Sequences, FiniteSets, TLC

VARIABLES exchange, calls, hashes, enc, agree

vars == <<exchange, calls, hashes, enc, agree>>

(***************************************************************************)
(* Bounds                                                                  *)
(***************************************************************************)
\* number of SecretKey calls made on the exchange (sequentially or concurrently)
MaxCalls == 2
\* largest output length, in bytes, asked of nistKdf when it is driven directly
MaxDkLen == 9
\* largest length of an algorithmID / party-info field fed to the encoder
MaxFieldLen == 2

CallIds == 1..MaxCalls

(***************************************************************************)
(* Bytes                                                                   *)
(***************************************************************************)
Byte == 0..255

Zeros(n) == [i \in 1..n |-> 0]

\* defect: the slice is returned as accumulated, without cutting it to n bytes
ResliceNone(s, n) == s

\* s[:n] of a slice whose capacity is at least n: the bytes past len(s) are
\* the zero bytes make() left in the backing array
Reslice(s, n) == IF n <= Len(s) THEN SubSeq(s, 1, n) ELSE s \o Zeros(n - Len(s))

\* binary.BigEndian.PutUint32 into a fresh 4-byte slice
uint32ToBytes(value) ==
    << (value \div 16777216) % 256, (value \div 65536) % 256,
       (value \div 256) % 256, value % 256 >>

\* defect: an empty field still gets its 4-byte length
lengthPrefixedArrayAlways(value) == uint32ToBytes(Len(value)) \o value

lengthPrefixedArray(value) ==
    IF Len(value) = 0 THEN << >> ELSE uint32ToBytes(Len(value)) \o value

\* big.Int.Bytes(): the absolute value as a minimal-length big-endian slice
RECURSIVE BigBytes(_)
BigBytes(n) == IF n = 0 THEN << >> ELSE Append(BigBytes(n \div 256), n % 256)

(***************************************************************************)
(* Elliptic curve (elliptic.Curve): y^2 = x^3 + A x + B over GF(P), a      *)
(* group of prime order N generated by (Gx, Gy).  The point at infinity    *)
(* is written (0, 0), as the affine conversion of the library does.        *)
(***************************************************************************)
Curve == [P |-> 307, A |-> 304, B |-> 16, N |-> 331, Gx |-> 4, Gy |-> 36]

Infinity == << 0, 0 >>

RECURSIVE ModPow(_, _, _)
ModPow(x, e, m) ==
    IF e = 0 THEN 1 % m
    ELSE LET h == ModPow(x, e \div 2, m)
             sq == (h * h) % m
         IN  IF e % 2 = 1 THEN (sq * (x % m)) % m ELSE sq

ModInv(x) == ModPow(x % Curve.P, Curve.P - 2, Curve.P)

PointAdd(p1, p2) ==
    IF p1 = Infinity THEN p2
    ELSE IF p2 = Infinity THEN p1
    ELSE IF p1[1] = p2[1] /\ (p1[2] + p2[2]) % Curve.P = 0 THEN Infinity
    ELSE LET l == IF p1 = p2
                  THEN ((3 * p1[1] * p1[1] + Curve.A) * ModInv(2 * p1[2])) % Curve.P
                  ELSE (((p2[2] - p1[2]) % Curve.P) * ModInv((p2[1] - p1[1]) % Curve.P)) % Curve.P
             x == (l * l - p1[1] - p2[1]) % Curve.P
             y == (l * ((p1[1] - x) % Curve.P) - p1[2]) % Curve.P
         IN  << x, y >>

\* the eight double-and-add steps of one scalar byte, most significant bit first
RECURSIVE ScalarMultBits(_, _, _, _)
ScalarMultBits(acc, base, byte, bitNum) ==
    IF bitNum = 8 THEN acc
    ELSE LET d == PointAdd(acc, acc)
             bit == (byte \div (2 ^ (7 - bitNum))) % 2
         IN  ScalarMultBits(IF bit = 1 THEN PointAdd(base, d) ELSE d, base, byte, bitNum + 1)

RECURSIVE ScalarMultBytes(_, _, _, _)
ScalarMultBytes(acc, base, k, i) ==
    IF i > Len(k) THEN acc
    ELSE ScalarMultBytes(ScalarMultBits(acc, base, k[i], 0), base, k, i + 1)

\* Curve.ScalarMult(Bx, By, k): k is a big-endian scalar
ScalarMult(Bx, By, k) == ScalarMultBytes(Infinity, << Bx, By >>, k, 1)

\* keys: *ecdsa.PrivateKey and *ecdsa.PublicKey, nil or pointing at a key
NilPrivateKey == [nil |-> TRUE, D |-> 0]
NilPublicKey == [nil |-> TRUE, X |-> 0, Y |-> 0]

PrivateKey(d) == [nil |-> FALSE, D |-> d]

\* the public key of a private scalar: d * G
PublicKey(d) ==
    LET q == ScalarMult(Curve.Gx, Curve.Gy, BigBytes(d))
    IN  [nil |-> FALSE, X |-> q[1], Y |-> q[2]]

(***************************************************************************)
(* hash.Hash.  "adler32" is hash/adler32: two sums modulo 65521, a 4-byte  *)
(* big-endian digest b<<16 | a.  "null" is a hash whose Size() is 0: it    *)
(* discards what is written and Sum appends nothing.                       *)
(***************************************************************************)
Adler32 == [mod |-> 65521, size |-> 4]

NoHash == [kind |-> "none", a |-> 0, b |-> 0]

\* what the factory h() returns: a hash in its initial state
HashNew(kind) == [kind |-> kind, a |-> 1, b |-> 0]

HashSize(h) == IF h.kind = "adler32" THEN Adler32.size ELSE 0

HashReset(h) == [h EXCEPT !.a = 1, !.b = 0]

RECURSIVE HashWriteFrom(_, _, _)
HashWriteFrom(h, p, i) ==
    IF i > Len(p) THEN h
    ELSE LET a1 == (h.a + p[i]) % Adler32.mod
             b1 == (h.b + a1) % Adler32.mod
         IN  HashWriteFrom([h EXCEPT !.a = a1, !.b = b1], p, i + 1)

HashWrite(h, p) == IF h.kind = "adler32" THEN HashWriteFrom(h, p, 1) ELSE h

\* Sum appends the current digest to in and leaves the state alone
HashSum(h, in) ==
    IF h.kind = "adler32"
    THEN in \o << h.b \div 256, h.b % 256, h.a \div 256, h.a % 256 >>
    ELSE in

(***************************************************************************)
(* The exchange                                                            *)
(***************************************************************************)
ECDH1PU(staticPrivateKey, h, algorithmID, dkLenBits, agreementPartyInfo) ==
    [ ourPrivate |-> staticPrivateKey,
      h |-> h,
      algorithmID |-> algorithmID,
      dkLenBits |-> dkLenBits,
      partyInfo |-> agreementPartyInfo ]

\* defect: the two halves of Z in the opposite order
computeSharedSecretSwapped(ex, ourEphemeralPrivateKey, theirPublicKey) ==
    IF ex.ourPrivate.nil
    THEN [err |-> "unable to process with nil private key", Z |-> << >>, mults |-> 0]
    ELSE IF ourEphemeralPrivateKey.nil
    THEN [err |-> "unable to process with nil ephemeral private key", Z |-> << >>, mults |-> 0]
    ELSE IF theirPublicKey.nil
    THEN [err |-> "unable to process with remote public key", Z |-> << >>, mults |-> 0]
    ELSE LET Ze == ScalarMult(theirPublicKey.X, theirPublicKey.Y,
                              BigBytes(ourEphemeralPrivateKey.D))[1]
             Zs == ScalarMult(theirPublicKey.X, theirPublicKey.Y,
                              BigBytes(ex.ourPrivate.D))[1]
         IN  [err |-> "", Z |-> BigBytes(Zs) \o BigBytes(Ze), mults |-> 2]

\* computeSharedSecret: the error, Z and the number of scalar multiplications made
computeSharedSecret(ex, ourEphemeralPrivateKey, theirPublicKey) ==
    IF ex.ourPrivate.nil
    THEN [err |-> "unable to process with nil private key", Z |-> << >>, mults |-> 0]
    ELSE IF ourEphemeralPrivateKey.nil
    THEN [err |-> "unable to process with nil ephemeral private key", Z |-> << >>, mults |-> 0]
    ELSE IF theirPublicKey.nil
    THEN [err |-> "unable to process with remote public key", Z |-> << >>, mults |-> 0]
    ELSE LET Ze == ScalarMult(theirPublicKey.X, theirPublicKey.Y,
                              BigBytes(ourEphemeralPrivateKey.D))[1]
             Zs == ScalarMult(theirPublicKey.X, theirPublicKey.Y,
                              BigBytes(ex.ourPrivate.D))[1]
         IN  [err |-> "", Z |-> BigBytes(Ze) \o BigBytes(Zs), mults |-> 2]

\* ( AlgorithmID || PartyUInfo || PartyVInfo || KeyLength )
FixedInfo(ex, theirAgreementInfo) ==
    lengthPrefixedArray(ex.algorithmID)
        \o lengthPrefixedArray(ex.partyInfo)
        \o lengthPrefixedArray(theirAgreementInfo)
        \o uint32ToBytes(ex.dkLenBits)

(***************************************************************************)
(* nistKdf: the round count.  reps is an int (64 bits) converted from a    *)
(* float64.  A finite quotient converts exactly.  With Size() = 0 the      *)
(* quotient is +Inf (dkLen > 0) or NaN (dkLen = 0), and the conversion of  *)
(* a value int cannot represent is implementation-dependent: the smallest  *)
(* int on amd64, the largest int (+Inf) or 0 (NaN) on arm64.               *)
(***************************************************************************)
Finite(n) == [sat |-> "no", n |-> n]
MinInt == [sat |-> "min", n |-> 0]
MaxInt == [sat |-> "max", n |-> 0]

Reps(dkLen, size) ==
    IF size > 0 THEN { Finite((dkLen + size - 1) \div size) }
    ELSE IF dkLen > 0 THEN { MinInt, MaxInt }
    ELSE { MinInt, Finite(0) }

\* reps >= 1<<32
TooManyRounds(reps) ==
    reps.sat = "max" \/ (reps.sat = "no" /\ reps.n \div 65536 >= 65536)

\* counter <= reps
InLoop(counter, reps) ==
    reps.sat = "max" \/ (reps.sat = "no" /\ counter <= reps.n)

(***************************************************************************)
(* SecretKey up to the call of nistKdf                                     *)
(***************************************************************************)
\* defect: the hash factory is checked only after the shared secret is computed
SecretKeyPrepareLateHashCheck(ex, ephemeralPrivateKey, theirPublicKey, theirAgreementInfo) ==
    IF ephemeralPrivateKey.nil
    THEN [err |-> "ephemeral private key is mandatory", Z |-> << >>, fixedInfo |-> << >>, mults |-> 0]
    ELSE IF theirPublicKey.nil
    THEN [err |-> "their public key is mandatory", Z |-> << >>, fixedInfo |-> << >>, mults |-> 0]
    ELSE LET ss == computeSharedSecret(ex, ephemeralPrivateKey, theirPublicKey)
         IN  IF ss.err # ""
             THEN [err |-> ss.err, Z |-> << >>, fixedInfo |-> << >>, mults |-> ss.mults]
             ELSE IF ex.h = "nil"
             THEN [err |-> "hash function is mandatory", Z |-> << >>, fixedInfo |-> << >>,
                   mults |-> ss.mults]
             ELSE [err |-> "", Z |-> ss.Z,
                   fixedInfo |-> FixedInfo(ex, theirAgreementInfo), mults |-> ss.mults]

\* the argument checks, computeSharedSecret and the fixed info
SecretKeyPrepare(ex, ephemeralPrivateKey, theirPublicKey, theirAgreementInfo) ==
    IF ephemeralPrivateKey.nil
    THEN [err |-> "ephemeral private key is mandatory", Z |-> << >>, fixedInfo |-> << >>, mults |-> 0]
    ELSE IF theirPublicKey.nil
    THEN [err |-> "their public key is mandatory", Z |-> << >>, fixedInfo |-> << >>, mults |-> 0]
    ELSE IF ex.h = "nil"
    THEN [err |-> "hash function is mandatory", Z |-> << >>, fixedInfo |-> << >>, mults |-> 0]
    ELSE LET ss == computeSharedSecret(ex, ephemeralPrivateKey, theirPublicKey)
         IN  IF ss.err # ""
             THEN [err |-> ss.err, Z |-> << >>, fixedInfo |-> << >>, mults |-> ss.mults]
             ELSE [err |-> "", Z |-> ss.Z,
                   fixedInfo |-> FixedInfo(ex, theirAgreementInfo), mults |-> ss.mults]

(***************************************************************************)
(* nistKdf and SecretKey run from entry to return with no other call in    *)
(* between                                                                 *)
(***************************************************************************)
RECURSIVE nistKdfLoop(_, _, _, _, _, _)
nistKdfLoop(h, sharedSecret, info, counter, reps, dk) ==
    IF ~InLoop(counter, reps) THEN dk
    ELSE LET h1 == HashReset(h)
             h2 == HashWrite(h1, uint32ToBytes(counter))
             h3 == HashWrite(h2, sharedSecret)
             h4 == HashWrite(h3, info)
         IN  nistKdfLoop(h4, sharedSecret, info, counter + 1, reps, HashSum(h4, dk))

\* the results nistKdf can return: one for each round count the build can compute
nistKdf(h, sharedSecret, info, dkLen) ==
    { IF TooManyRounds(r)
      THEN [err |-> "too many round count for KDF", key |-> << >>, keyNil |-> TRUE]
      ELSE [err |-> "",
            key |-> Reslice(nistKdfLoop(h, sharedSecret, info, 1, r, << >>), dkLen),
            keyNil |-> FALSE] :
      r \in Reps(dkLen, HashSize(h)) }

SecretKeyRun(ex, ephemeralPrivateKey, theirPublicKey, theirAgreementInfo) ==
    LET pre == SecretKeyPrepare(ex, ephemeralPrivateKey, theirPublicKey, theirAgreementInfo)
    IN  IF pre.err # ""
        THEN { [err |-> pre.err, key |-> << >>, keyNil |-> TRUE] }
        ELSE { IF dk.err # ""
               THEN [dk EXCEPT !.err = "unable to apply kdf: " \o dk.err]
               ELSE dk :
               dk \in nistKdf(HashNew(ex.h), pre.Z, pre.fixedInfo, ex.dkLenBits \div 8) }

(***************************************************************************)
(* State.  calls[c] is one invocation: its arguments, its locals, its      *)
(* position and its result, with counters of the cryptographic work it     *)
(* did (mults: scalar multiplications, news: factory invocations, ops:     *)
(* Reset/Write/Sum operations, rounds: the counter and digest of each      *)
(* completed round, h0: the state of its hash instance when nistKdf was    *)
(* entered).  hashes is the heap of hash instances.                        *)
(***************************************************************************)
IdleCall ==
    [ pc |-> "idle", via |-> "",
      eph |-> NilPrivateKey, pub |-> NilPublicKey, info |-> << >>,
      Z |-> << >>, fixedInfo |-> << >>, h |-> 0, h0 |-> NoHash, dkLen |-> 0,
      reps |-> Finite(0), counter |-> 0, dk |-> << >>,
      key |-> << >>, keyNil |-> TRUE, err |-> "",
      mults |-> 0, news |-> 0, ops |-> 0, rounds |-> << >> ]

\* defect: one hash instance serves every call
SharedHash(c) == 1

\* the instance the factory hands to call c: a new one at every invocation
NewHash(c) == c

\* nistKdf from its entry to the loop, for the round count r the build computes
nistKdfBegin(call, r, errPrefix) ==
    IF TooManyRounds(r)
    THEN [call EXCEPT !.pc = "done", !.reps = r, !.keyNil = TRUE,
                      !.err = errPrefix \o "too many round count for KDF"]
    ELSE [call EXCEPT !.pc = IF InLoop(1, r) THEN "reset" ELSE "ret",
                      !.reps = r, !.counter = 1, !.dk = << >>]

\* what SecretKey does to the call and to the heap of hash instances
SecretKeyCall(c, ephemeralPrivateKey, theirPublicKey, theirAgreementInfo) ==
    /\ calls[c].pc = "idle"
    /\ LET pre == SecretKeyPrepare(exchange, ephemeralPrivateKey, theirPublicKey,
                                   theirAgreementInfo)
           args == [calls[c] EXCEPT !.via = "SecretKey", !.eph = ephemeralPrivateKey,
                                    !.pub = theirPublicKey, !.info = theirAgreementInfo,
                                    !.mults = pre.mults]
       IN  IF pre.err # ""
           THEN /\ calls' = [calls EXCEPT ![c] =
                                [args EXCEPT !.pc = "done", !.err = pre.err, !.keyNil = TRUE]]
                /\ UNCHANGED hashes
           ELSE LET h == NewHash(c)
                    inst == HashNew(exchange.h)
                    dkLen == exchange.dkLenBits \div 8
                    entered == [args EXCEPT !.Z = pre.Z, !.fixedInfo = pre.fixedInfo,
                                            !.h = h, !.h0 = inst, !.news = 1,
                                            !.dkLen = dkLen]
                IN  /\ hashes' = [hashes EXCEPT ![h] = inst]
                    /\ \E r \in Reps(dkLen, HashSize(inst)) :
                         calls' = [calls EXCEPT ![c] =
                                      nistKdfBegin(entered, r, "unable to apply kdf: ")]

\* defect: the remote party info is appended to the exchange's own party info
SecretKeyAliasing(c, ephemeralPrivateKey, theirPublicKey, theirAgreementInfo) ==
    /\ SecretKeyCall(c, ephemeralPrivateKey, theirPublicKey, theirAgreementInfo)
    /\ exchange' = [exchange EXCEPT !.partyInfo = @ \o theirAgreementInfo]
    /\ UNCHANGED << enc, agree >>

\* SecretKey reads the exchange and its arguments and writes neither
SecretKey(c, ephemeralPrivateKey, theirPublicKey, theirAgreementInfo) ==
    /\ SecretKeyCall(c, ephemeralPrivateKey, theirPublicKey, theirAgreementInfo)
    /\ UNCHANGED << exchange, enc, agree >>

\* nistKdf called directly with the instance hashes[c], whatever was written to it
NistKdf(c, sharedSecret, info, dkLen) ==
    /\ calls[c].pc = "idle"
    /\ hashes[c].kind # "none"
    /\ LET entered == [calls[c] EXCEPT !.via = "nistKdf", !.Z = sharedSecret,
                                       !.fixedInfo = info, !.h = c, !.h0 = hashes[c],
                                       !.dkLen = dkLen]
       IN  \E r \in Reps(dkLen, HashSize(hashes[c])) :
             calls' = [calls EXCEPT ![c] = nistKdfBegin(entered, r, "")]
    /\ UNCHANGED << exchange, hashes, enc, agree >>

\* one hash operation of the loop body of call c
HashStep(c, from, to, state) ==
    /\ calls[c].pc = from
    /\ hashes' = [hashes EXCEPT ![calls[c].h] = state]
    /\ calls' = [calls EXCEPT ![c].pc = to, ![c].ops = @ + 1]
    /\ UNCHANGED << exchange, enc, agree >>

\* defect: the round starts without h.Reset()
KdfNoReset(c) ==
    HashStep(c, "reset", "wcounter", hashes[calls[c].h])

KdfReset(c) ==
    HashStep(c, "reset", "wcounter", HashReset(hashes[calls[c].h]))

KdfWriteCounter(c) ==
    HashStep(c, "wcounter", "wsecret",
             HashWrite(hashes[calls[c].h], uint32ToBytes(calls[c].counter)))

KdfWriteSecret(c) ==
    HashStep(c, "wsecret", "winfo", HashWrite(hashes[calls[c].h], calls[c].Z))

KdfWriteInfo(c) ==
    HashStep(c, "winfo", "sum", HashWrite(hashes[calls[c].h], calls[c].fixedInfo))

\* dk = h.Sum(dk), then counter++ and the loop test
KdfSum(c) ==
    /\ calls[c].pc = "sum"
    /\ LET call == calls[c]
           dk == HashSum(hashes[call.h], call.dk)
           digest == SubSeq(dk, Len(call.dk) + 1, Len(dk))
       IN  calls' = [calls EXCEPT ![c] =
                        [call EXCEPT !.dk = dk, !.counter = call.counter + 1,
                                     !.ops = call.ops + 1,
                                     !.rounds = Append(call.rounds,
                                                       [counter |-> call.counter,
                                                        digest |-> digest]),
                                     !.pc = IF InLoop(call.counter + 1, call.reps)
                                            THEN "reset" ELSE "ret"]]
    /\ UNCHANGED << exchange, hashes, enc, agree >>

\* return dk[:dkLen], nil
KdfReturn(c) ==
    /\ calls[c].pc = "ret"
    /\ calls' = [calls EXCEPT ![c].pc = "done",
                              ![c].key = Reslice(calls[c].dk, calls[c].dkLen),
                              ![c].keyNil = FALSE]
    /\ UNCHANGED << exchange, hashes, enc, agree >>

(***************************************************************************)
(* Spec: one exchange, MaxCalls calls of SecretKey running concurrently    *)
(***************************************************************************)
StaticKeys == { NilPrivateKey, PrivateKey(300) }
EphemeralKeys == { NilPrivateKey, PrivateKey(3) }
PublicKeys == { NilPublicKey, PublicKey(9), PublicKey(15) }
HashFactories == { "nil", "adler32" }
AlgorithmIDs == { << 65 >> }
PartyInfos == { << 66 >> }
TheirInfos == { << 67 >> }
DkLenBits == { 0, 8, 32, 40 }

Exchanges ==
    { ECDH1PU(k, h, a, l, p) :
        k \in StaticKeys, h \in HashFactories, a \in AlgorithmIDs,
        l \in DkLenBits, p \in PartyInfos }

NoEnc == [pc |-> "off", ex |-> ECDH1PU(NilPrivateKey, "nil", << >>, 0, << >>),
          info |-> << >>, fixedInfo |-> << >>]

NoAgree == [pc |-> "off", sA |-> 0, eA |-> 0, sB |-> 0, ex |-> NoEnc.ex, info |-> << >>,
            Z |-> << >>, key |-> << >>, err |-> "", rkey |-> << >>, rerr |-> ""]

Init ==
    /\ exchange \in Exchanges
    /\ calls = [c \in CallIds |-> IdleCall]
    /\ hashes = [c \in CallIds |-> NoHash]
    /\ enc = NoEnc
    /\ agree = NoAgree

Next ==
    \E c \in CallIds :
        \/ \E e \in EphemeralKeys, q \in PublicKeys, i \in TheirInfos : SecretKey(c, e, q, i)
        \/ KdfReset(c)
        \/ KdfWriteCounter(c)
        \/ KdfWriteSecret(c)
        \/ KdfWriteInfo(c)
        \/ KdfSum(c)
        \/ KdfReturn(c)

Spec == Init /\ [][Next]_vars

(***************************************************************************)
(* SpecKdf: nistKdf driven directly, on a hash instance that may already   *)
(* hold written data and on a hash whose Size() is 0                       *)
(***************************************************************************)
HashKinds == { "adler32", "null" }
WrittenBefore == { << >>, << 7 >> }
SharedSecrets == { << >>, << 1 >>, << 2, 3 >> }
Infos == { << >>, << 0, 0, 0, 8 >> }

InitKdf ==
    /\ exchange = NoEnc.ex
    /\ calls = [c \in CallIds |-> IdleCall]
    /\ \E k \in HashKinds, w \in WrittenBefore :
         hashes = [c \in CallIds |-> IF c = 1 THEN HashWrite(HashNew(k), w) ELSE NoHash]
    /\ enc = NoEnc
    /\ agree = NoAgree

NextKdf ==
    \/ \E z \in SharedSecrets, i \in Infos, l \in 0..MaxDkLen : NistKdf(1, z, i, l)
    \/ KdfReset(1)
    \/ KdfWriteCounter(1)
    \/ KdfWriteSecret(1)
    \/ KdfWriteInfo(1)
    \/ KdfSum(1)
    \/ KdfReturn(1)

SpecKdf == InitKdf /\ [][NextKdf]_vars

(***************************************************************************)
(* SpecInfo: the fixed info of an exchange and a remote party info         *)
(***************************************************************************)
Letters == { 65, 66 }

RECURSIVE Fields(_)
Fields(n) ==
    IF n = 0 THEN { << >> }
    ELSE LET shorter == Fields(n - 1)
         IN  shorter \cup { Append(f, b) : f \in { g \in shorter : Len(g) = n - 1 }, b \in Letters }

InfoDkLenBits == { 0, 128, 66051 }

InitInfo ==
    /\ exchange = NoEnc.ex
    /\ calls = [c \in CallIds |-> IdleCall]
    /\ hashes = [c \in CallIds |-> NoHash]
    /\ \E a \in Fields(MaxFieldLen), u \in Fields(MaxFieldLen), v \in Fields(MaxFieldLen),
          l \in InfoDkLenBits :
         enc = [pc |-> "in", ex |-> ECDH1PU(PrivateKey(300), "adler32", a, l, u),
                info |-> v, fixedInfo |-> << >>]
    /\ agree = NoAgree

BuildFixedInfo ==
    /\ enc.pc = "in"
    /\ enc' = [enc EXCEPT !.pc = "out", !.fixedInfo = FixedInfo(enc.ex, enc.info)]
    /\ UNCHANGED << exchange, calls, hashes, agree >>

NextInfo == BuildFixedInfo

SpecInfo == InitInfo /\ [][NextInfo]_vars

(***************************************************************************)
(* SpecAgree: a sender (static sA, ephemeral eA) derives a key for a       *)
(* receiver (static sB); the receiver then calls SecretKey with what it    *)
(* holds: its private key sB and the sender's public keys                  *)
(***************************************************************************)
SenderStatic == { 5, 300 }
SenderEphemeral == { 3, 7 }
ReceiverStatic == { 6, 9, 15, 56 }
AgreeDkLenBits == { 8, 40 }

InitAgree ==
    /\ exchange = NoEnc.ex
    /\ calls = [c \in CallIds |-> IdleCall]
    /\ hashes = [c \in CallIds |-> NoHash]
    /\ enc = NoEnc
    /\ \E s \in SenderStatic, e \in SenderEphemeral, r \in ReceiverStatic, l \in AgreeDkLenBits :
         agree = [NoAgree EXCEPT !.pc = "keys", !.sA = s, !.eA = e, !.sB = r,
                                 !.ex = ECDH1PU(PrivateKey(s), "adler32", << 65 >>, l, << 66 >>),
                                 !.info = << 67 >>]

SenderSecretKey ==
    /\ agree.pc = "keys"
    /\ \E res \in SecretKeyRun(agree.ex, PrivateKey(agree.eA), PublicKey(agree.sB), agree.info) :
         agree' = [agree EXCEPT !.pc = "sent", !.key = res.key, !.err = res.err,
                                !.Z = SecretKeyPrepare(agree.ex, PrivateKey(agree.eA),
                                                       PublicKey(agree.sB), agree.info).Z]
    /\ UNCHANGED << exchange, calls, hashes, enc >>

\* the calls open to the receiver: every private input is sB, the public input
\* is the sender's static or ephemeral public key, the party infos in either order
ReceiverCalls(a) ==
    { [ex |-> ECDH1PU(PrivateKey(a.sB), a.ex.h, a.ex.algorithmID, a.ex.dkLenBits, u),
       eph |-> PrivateKey(a.sB), pub |-> q, info |-> v] :
      q \in { PublicKey(a.sA), PublicKey(a.eA) },
      u \in { a.ex.partyInfo, a.info }, v \in { a.ex.partyInfo, a.info } }

ReceiverSecretKey ==
    /\ agree.pc = "sent"
    /\ \E rc \in ReceiverCalls(agree) :
         \E res \in SecretKeyRun(rc.ex, rc.eph, rc.pub, rc.info) :
           agree' = [agree EXCEPT !.pc = "received", !.rkey = res.key, !.rerr = res.err]
    /\ UNCHANGED << exchange, calls, hashes, enc >>

NextAgree == SenderSecretKey \/ ReceiverSecretKey

SpecAgree == InitAgree /\ [][NextAgree]_vars

(***************************************************************************)
(* Properties                                                              *)
(***************************************************************************)
Done(c) == calls[c].via = "SecretKey" /\ calls[c].pc = "done"

LoopPcs == { "reset", "wcounter", "wsecret", "winfo", "sum" }

\* the value of a big-endian byte string
RECURSIVE BytesValue(_)
BytesValue(b) ==
    IF Len(b) = 0 THEN 0 ELSE 256 * BytesValue(SubSeq(b, 1, Len(b) - 1)) + b[Len(b)]

\* C1: a call on an exchange with a static key, a hash and a dkLenBits that is
\* a positive multiple of 8, with an ephemeral key and a remote public key,
\* returns no error and a key of exactly dkLenBits / 8 bytes, whether the
\* digest is longer than, as long as or shorter than the key asked for.
C1_LengthContract ==
    \A c \in CallIds :
        ( /\ Done(c)
          /\ ~exchange.ourPrivate.nil /\ exchange.h # "nil"
          /\ exchange.dkLenBits > 0 /\ exchange.dkLenBits % 8 = 0
          /\ ~calls[c].eph.nil /\ ~calls[c].pub.nil )
        => /\ calls[c].err = ""
           /\ ~calls[c].keyNil
           /\ 8 * Len(calls[c].key) = exchange.dkLenBits

C1_Witness ==
    \E c \in CallIds :
        /\ Done(c) /\ calls[c].err = ""
        /\ exchange.dkLenBits = 40
        /\ Len(calls[c].key) = 5
        /\ Len(calls[c].rounds) = 2
        /\ Len(calls[c].dk) = 8

\* C2: when the static key, the ephemeral key, the remote public key or the
\* hash factory is absent, in any combination, SecretKey returns an error and
\* a nil key, having made no scalar multiplication, not invoked the factory
\* and run no hash operation.
C2_MissingParameter ==
    \A c \in CallIds :
        ( /\ calls[c].via = "SecretKey"
          /\ \/ exchange.ourPrivate.nil \/ exchange.h = "nil"
             \/ calls[c].eph.nil \/ calls[c].pub.nil )
        => /\ calls[c].pc = "done"
           /\ calls[c].err # ""
           /\ calls[c].keyNil /\ calls[c].key = << >>
           /\ calls[c].mults = 0
           /\ calls[c].news = 0 /\ calls[c].h = 0
           /\ calls[c].ops = 0 /\ calls[c].rounds = << >>

C2_Witness ==
    \E c, d \in CallIds :
        /\ Done(c) /\ calls[c].err # "" /\ calls[c].mults = 0
        /\ exchange.h = "nil" /\ ~exchange.ourPrivate.nil
        /\ ~calls[c].eph.nil /\ ~calls[c].pub.nil
        /\ Done(d) /\ calls[d].eph.nil /\ calls[d].pub.nil

\* a step leaves the exchange and the arguments of every call made so far alone
C4_Frame ==
    /\ exchange' = exchange
    /\ \A c \in CallIds :
         calls[c].pc # "idle"
         => /\ calls'[c].eph = calls[c].eph
            /\ calls'[c].pub = calls[c].pub
            /\ calls'[c].info = calls[c].info

\* two completed calls with the same arguments have the same result
C4_SameResult ==
    \A c, d \in CallIds :
        ( /\ Done(c) /\ Done(d)
          /\ calls[c].eph = calls[d].eph
          /\ calls[c].pub = calls[d].pub
          /\ calls[c].info = calls[d].info )
        => /\ calls[c].key = calls[d].key
           /\ calls[c].keyNil = calls[d].keyNil
           /\ calls[c].err = calls[d].err

\* C4: no call changes the exchange's configuration or the caller's
\* arguments, and two calls with the same arguments return the same key and
\* the same error, whatever other calls ran before or between them.
C4_Stateless == [][C4_Frame]_vars /\ []C4_SameResult

C4_Witness ==
    \E c, d \in CallIds :
        /\ c # d /\ Done(c) /\ Done(d)
        /\ calls[c].eph = calls[d].eph
        /\ calls[c].pub = calls[d].pub
        /\ calls[c].info = calls[d].info
        /\ calls[c].err = "" /\ Len(calls[c].key) = 5
        /\ calls[c].key = calls[d].key

\* the instance of a call after the writes of round counter, the call running alone
RoundState(call, counter) ==
    HashWrite(HashWrite(HashWrite(HashNew(exchange.h), uint32ToBytes(counter)), call.Z),
              call.fixedInfo)

\* the instance of a call at its position, the call running alone
ExpectedHash(call) ==
    CASE call.pc = "wcounter" -> HashNew(exchange.h)
      [] call.pc = "wsecret" -> HashWrite(HashNew(exchange.h), uint32ToBytes(call.counter))
      [] call.pc = "winfo" ->
            HashWrite(HashWrite(HashNew(exchange.h), uint32ToBytes(call.counter)), call.Z)
      [] call.pc = "sum" -> RoundState(call, call.counter)
      [] OTHER -> IF call.counter = 1 THEN HashNew(exchange.h)
                  ELSE RoundState(call, call.counter - 1)

\* C8: concurrent calls on one exchange do not disturb each other: each call
\* has a hash instance no other call has, at every step of its loop that
\* instance holds exactly what the call alone wrote to it, and the call
\* returns what it returns when run alone.
C8_ConcurrentCalls ==
    \A c \in CallIds :
        calls[c].via = "SecretKey"
        => /\ calls[c].h # 0
              => /\ \A d \in CallIds \ {c} : calls[d].h # calls[c].h
                 /\ calls[c].news = 1
                 /\ hashes[calls[c].h] = ExpectedHash(calls[c])
           /\ calls[c].pc = "done"
              => [err |-> calls[c].err, key |-> calls[c].key, keyNil |-> calls[c].keyNil]
                     \in SecretKeyRun(exchange, calls[c].eph, calls[c].pub, calls[c].info)

C8_Witness ==
    \E c, d \in CallIds :
        /\ c # d
        /\ calls[c].pc = "winfo" /\ calls[c].counter = 2
        /\ calls[d].pc = "sum" /\ calls[d].counter = 2
        /\ calls[c].pub # calls[d].pub
        /\ hashes[calls[c].h] # hashes[calls[d].h]

\* the bytes a field takes in the fixed info
EncLen(f) == IF Len(f) = 0 THEN 0 ELSE 4 + Len(f)

\* field f, when not empty, stands at offset off: its length, then its bytes
FieldAt(fi, off, f) ==
    \/ Len(f) = 0
    \/ /\ BytesValue(SubSeq(fi, off + 1, off + 4)) = Len(f)
       /\ SubSeq(fi, off + 5, off + 4 + Len(f)) = f

\* C5: the fixed info is enc(algorithmID) || enc(partyInfo) ||
\* enc(theirAgreementInfo) || dkLenBits in that order, where an empty field
\* contributes nothing, any other field its length as 4 big-endian bytes and
\* then its bytes, and dkLenBits is always 4 big-endian bytes, 0 included.
C5_FixedInfoLayout ==
    enc.pc = "out"
    => LET fi == enc.fixedInfo
           la == EncLen(enc.ex.algorithmID)
           lu == EncLen(enc.ex.partyInfo)
           lv == EncLen(enc.info)
       IN  /\ Len(fi) = la + lu + lv + 4
           /\ \A i \in 1..Len(fi) : fi[i] \in Byte
           /\ FieldAt(fi, 0, enc.ex.algorithmID)
           /\ FieldAt(fi, la, enc.ex.partyInfo)
           /\ FieldAt(fi, la + lu, enc.info)
           /\ BytesValue(SubSeq(fi, la + lu + lv + 1, la + lu + lv + 4)) = enc.ex.dkLenBits

C5_Witness ==
    /\ enc.pc = "out"
    /\ enc.ex.algorithmID = << >>
    /\ enc.ex.partyInfo = << 65 >>
    /\ enc.info = << 66, 65 >>
    /\ enc.ex.dkLenBits = 0
    /\ enc.fixedInfo = << 0, 0, 0, 1, 65, 0, 0, 0, 2, 66, 65, 0, 0, 0, 0 >>

\* C10: for a fixed dkLenBits, two different triples (algorithmID, partyInfo,
\* theirAgreementInfo) never have the same fixed info, empty fields included.
C10_FixedInfoInjective ==
    enc.pc = "out"
    => \A a \in Fields(MaxFieldLen), u \in Fields(MaxFieldLen), v \in Fields(MaxFieldLen) :
          << a, u, v >> # << enc.ex.algorithmID, enc.ex.partyInfo, enc.info >>
          => FixedInfo(ECDH1PU(enc.ex.ourPrivate, enc.ex.h, a, enc.ex.dkLenBits, u), v)
                 # enc.fixedInfo

\* f[1] + ... + f[n]
Sum(f, n) == LET S[i \in 0..n] == IF i = 0 THEN 0 ELSE S[i - 1] + f[i] IN S[n]

\* Adler-32 of a whole message: a = 1 + sum of the bytes, b = the sum of the
\* successive values of a, both modulo 65521
Adler32Of(msg) ==
    LET n == Len(msg)
        a == (1 + Sum(msg, n)) % 65521
        b == (n + Sum([i \in 1..n |-> (n - i + 1) * msg[i]], n)) % 65521
    IN  << b \div 256, b % 256, a \div 256, a % 256 >>

\* the least n with n * y >= x
CeilDiv(x, y) == CHOOSE n \in 0..x : n * y >= x /\ \A m \in 0..(n - 1) : m * y < x

\* the digests of the first n rounds, in order
RECURSIVE Digests(_, _)
Digests(rounds, n) ==
    IF n = 0 THEN << >> ELSE Digests(rounds, n - 1) \o rounds[n].digest

\* C6: nistKdf runs ceil(dkLen / Size) rounds with the counters 1, 2, ... in
\* order, round i appends Hash(BigEndian32(i) || Z || info) whatever the
\* instance held before, and the result is the first dkLen bytes of the
\* digests in counter order.
C6_KdfRounds ==
    \A c \in CallIds :
        (calls[c].via = "nistKdf" /\ calls[c].h0.kind = "adler32")
        => LET call == calls[c]
               n == CeilDiv(call.dkLen, 4)
           IN  /\ Len(call.rounds) <= n
               /\ \A i \in 1..Len(call.rounds) :
                    /\ call.rounds[i].counter = i
                    /\ call.rounds[i].digest
                           = Adler32Of(<< 0, 0, 0, i >> \o call.Z \o call.fixedInfo)
               /\ call.pc = "done"
                  => /\ call.err = "" /\ ~call.keyNil
                     /\ Len(call.rounds) = n
                     /\ call.ops = 5 * n
                     /\ call.key = SubSeq(Digests(call.rounds, n), 1, call.dkLen)

C6_Witness ==
    \E c \in CallIds :
        /\ calls[c].via = "nistKdf" /\ calls[c].pc = "done"
        /\ calls[c].h0.kind = "adler32" /\ calls[c].h0 # HashNew("adler32")
        /\ calls[c].dkLen = 9 /\ Len(calls[c].rounds) = 3
        /\ calls[c].Z = << 2, 3 >> /\ calls[c].fixedInfo = << 0, 0, 0, 8 >>
        /\ Len(calls[c].key) = 9

\* ceil(dkLen / size) > 2^32 - 1; the quotient by a size of 0 is infinite
TooManyNeeded(dkLen, size) ==
    IF size = 0 THEN dkLen > 0
    ELSE CeilDiv(dkLen, size) \div 65536 >= 65536

\* C9: when the rounds needed, ceil(dkLen / Size), exceed 2^32 - 1, nistKdf
\* returns the round-overflow error and no key, and has run no hash operation.
C9_RoundOverflow ==
    \A c \in CallIds :
        ( /\ calls[c].via = "nistKdf"
          /\ TooManyNeeded(calls[c].dkLen, HashSize(calls[c].h0)) )
        => /\ calls[c].pc = "done"
           /\ calls[c].err = "too many round count for KDF"
           /\ calls[c].keyNil /\ calls[c].key = << >>
           /\ calls[c].ops = 0

\* k * G by doubling on the integer k
RECURSIVE TimesG(_)
TimesG(k) ==
    IF k = 0 THEN Infinity
    ELSE LET half == TimesG(k \div 2)
             twice == PointAdd(half, half)
         IN  IF k % 2 = 1 THEN PointAdd(twice, << Curve.Gx, Curve.Gy >>) ELSE twice

\* the bytes of a coordinate (below 65536) without leading zero bytes
ByteLen(x) == IF x = 0 THEN 0 ELSE IF x < 256 THEN 1 ELSE 2

\* C7: Z is Ze || Zs, Ze the x-coordinate of (ephemeral scalar * remote
\* public), Zs the x-coordinate of (static scalar * remote public), each as
\* its big-endian bytes with no leading zero byte.
C7_SharedSecret ==
    agree.pc \in { "sent", "received" }
    => LET xe == TimesG((agree.eA * agree.sB) % Curve.N)[1]
           xs == TimesG((agree.sA * agree.sB) % Curve.N)[1]
           Z == agree.Z
       IN  /\ Len(Z) = ByteLen(xe) + ByteLen(xs)
           /\ BytesValue(SubSeq(Z, 1, ByteLen(xe))) = xe
           /\ BytesValue(SubSeq(Z, ByteLen(xe) + 1, Len(Z))) = xs

C7_Witness ==
    /\ agree.pc = "sent"
    /\ agree.sA = 300 /\ agree.eA = 3 /\ agree.sB = 15
    /\ Len(agree.Z) = 1
    /\ agree.Z[1] # 0

\* C3: the key the sender derives is one the receiver can derive too, by a
\* SecretKey call whose private inputs are its own static key and whose
\* public input is one of the sender's public keys.
C3_KeyAgreement ==
    (agree.pc = "sent" /\ agree.err = "")
    => \E rc \in ReceiverCalls(agree) :
         \E res \in SecretKeyRun(rc.ex, rc.eph, rc.pub, rc.info) :
            res.err = "" /\ res.key = agree.key

====
